---- MODULE Spec2Model ----
(***************************************************************************)
(* Model of the search server (SearchServer), the request queue that wraps *)
(* it (RequestQueue) and the paginator (Paginator / Paginate).             *)
(*                                                                         *)
(* Representation:                                                         *)
(*   - a string is a sequence of char codes (signed char values);          *)
(*   - a double relevance is an integer in units of 1e-8;                  *)
(*   - a double term frequency  n * (1.0 / words.size())  is the record    *)
(*     [num |-> n, den |-> words.size()];                                  *)
(*   - the outcome of a call is a record: "thrown" is the type of the      *)
(*     exception thrown ("none" when the call returned), "what" its         *)
(*     message, "value" the value returned.                                *)
(***************************************************************************)
EXTENDS Integers, Sequences, FiniteSets, TLC

(***************************************************************************)
(* Bounds of the model.                                                    *)
(***************************************************************************)
\* document ids offered to AddDocument are -1 .. MaxDocId
MaxDocId == 1
\* document ids of SpecQueue are 0 .. MaxQueueDocId
MaxQueueDocId == 1
\* number of successful tracked requests in a run of SpecQueue
MaxRequests == 5
\* capacity of the sliding window (min_in_day_, 1440 in the source) in
\* SpecQueue, where every order of empty and non-empty results is explored,
\* and in the single run of SpecWindow
WindowCapacity == 3
ScenarioCapacity == 60
\* number of documents of a corpus of SpecFind
MaxFindDocs == 6
\* number of documents of SpecFind with the same text, status and ratings
MaxSameDocs == 2
\* length of the query texts of SpecParse
MaxQueryLen == 5
\* length of the sequences and size of the pages of SpecPaginate
MaxRangeLen == 7
MaxPageSize == 4

(***************************************************************************)
(* Program constants.                                                      *)
(***************************************************************************)
MAX_RESULT_DOCUMENT_COUNT == 5
\* 1e-6, in units of 1e-8
EPSILON == 100
\* ' ' and '-'
SPACE == 32
MINUS == 45


VARIABLES
    stop_words_,               \* SearchServer::stop_words_
    word_to_document_freqs_,   \* SearchServer::word_to_document_freqs_
    documents_,                \* SearchServer::documents_
    document_id_sequence_,     \* SearchServer::document_id_sequence_
    requests_,                 \* RequestQueue::requests_
    current_request_id_,       \* RequestQueue::current_request_id_
    issued,                    \* history: result count of every completed request
    call,                      \* the last call (or the pending one): operation and arguments
    ret                        \* what that call returned or threw

server == <<stop_words_, word_to_document_freqs_, documents_, document_id_sequence_>>
queue == <<requests_, current_request_id_, issued>>
vars == <<stop_words_, word_to_document_freqs_, documents_, document_id_sequence_,
          requests_, current_request_id_, issued, call, ret>>

(***************************************************************************)
(* Helpers: maps, C++ integer division, exceptions.                        *)
(***************************************************************************)
EmptyMap == <<>>

\* map[key] = value (insert or overwrite)
MapPut(map, key, value) ==
    [k \in (DOMAIN map) \cup {key} |-> IF k = key THEN value ELSE map[k]]

Abs(x) == IF x < 0 THEN -x ELSE x

\* a / b and a % b of C++ ints (b # 0): the quotient truncates toward zero
CDiv(a, b) ==
    IF (a >= 0) = (b > 0) THEN Abs(a) \div Abs(b) ELSE -(Abs(a) \div Abs(b))

CRem(a, b) == a - b * CDiv(a, b)

NoThrow == "none"

Returned(value) == [thrown |-> NoThrow, what |-> "", value |-> value]

InvalidArgument(what) == [thrown |-> "invalid_argument", what |-> what, value |-> <<>>]

OutOfRange(what) == [thrown |-> "out_of_range", what |-> what, value |-> <<>>]

(***************************************************************************)
(* Text.                                                                   *)
(***************************************************************************)
RECURSIVE SplitIntoWordsFrom(_, _, _, _)
SplitIntoWordsFrom(text, i, word, words) ==
    IF i > Len(text)
    THEN IF word # <<>> THEN Append(words, word) ELSE words
    ELSE IF text[i] = SPACE
         THEN IF word # <<>>
              THEN SplitIntoWordsFrom(text, i + 1, <<>>, Append(words, word))
              ELSE SplitIntoWordsFrom(text, i + 1, word, words)
         ELSE SplitIntoWordsFrom(text, i + 1, Append(word, text[i]), words)

SplitIntoWords(text) == SplitIntoWordsFrom(text, 1, <<>>, <<>>)

MakeUniqueNonEmptyStrings(strings) ==
    {strings[i] : i \in {j \in 1..Len(strings) : strings[j] # <<>>}}

\* no char c with c >= '\0' && c < ' '
IsValidWord(word) ==
    \A i \in 1..Len(word) : ~(word[i] >= 0 /\ word[i] < SPACE)

IsStopWord(word) == word \in stop_words_

\* text[0] of a std::string: the terminating '\0' when the string is empty
FirstChar(text) == IF text = <<>> THEN 0 ELSE text[1]

RECURSIVE SplitIntoWordsNoStopFrom(_, _, _)
SplitIntoWordsNoStopFrom(all, i, words) ==
    IF i > Len(all) THEN Returned(words)
    ELSE IF IsValidWord(all[i])
         THEN SplitIntoWordsNoStopFrom(all, i + 1,
                  IF ~IsStopWord(all[i]) THEN Append(words, all[i]) ELSE words)
         ELSE InvalidArgument("invalid characters in the document")

SplitIntoWordsNoStop(text) == SplitIntoWordsNoStopFrom(SplitIntoWords(text), 1, <<>>)

RECURSIVE SumRatings(_, _)
SumRatings(ratings, i) ==
    IF i > Len(ratings) THEN 0 ELSE ratings[i] + SumRatings(ratings, i + 1)

ComputeAverageRating(ratings) ==
    IF ratings = <<>> THEN 0 ELSE CDiv(SumRatings(ratings, 1), Len(ratings))

(***************************************************************************)
(* SearchServer::AddDocument                                               *)
(***************************************************************************)
\* word_to_document_freqs_[word][document_id] += inv_word_count, for every word
RECURSIVE AddPostings(_, _, _, _)
AddPostings(freqs, words, i, document_id) ==
    IF i > Len(words) THEN freqs
    ELSE LET word == words[i]
             postings == IF word \in DOMAIN freqs THEN freqs[word] ELSE EmptyMap
             old == IF document_id \in DOMAIN postings THEN postings[document_id].num ELSE 0
         IN AddPostings(
                MapPut(freqs, word,
                       MapPut(postings, document_id, [num |-> old + 1, den |-> Len(words)])),
                words, i + 1, document_id)

\* AddDocumentResult with the id recorded before the text is split
AddDocumentResultIdFirst(document_id, document, status, ratings) ==
    LET unchanged == [freqs |-> word_to_document_freqs_, documents |-> documents_,
                      sequence |-> document_id_sequence_]
    IN IF document_id < 0
       THEN [outcome |-> InvalidArgument("document_id is negative")] @@ unchanged
       ELSE IF document_id \in DOMAIN documents_
       THEN [outcome |-> InvalidArgument("document_id is exist in SearchServer")] @@ unchanged
       ELSE LET words == SplitIntoWordsNoStop(document)
            IN IF words.thrown # NoThrow
               THEN [outcome |-> words, freqs |-> word_to_document_freqs_,
                     documents |-> documents_,
                     sequence |-> Append(document_id_sequence_, document_id)]
               ELSE [outcome |-> Returned(<<>>),
                     freqs |-> AddPostings(word_to_document_freqs_, words.value, 1, document_id),
                     documents |-> MapPut(documents_, document_id,
                                       [rating |-> ComputeAverageRating(ratings),
                                        status |-> status]),
                     sequence |-> Append(document_id_sequence_, document_id)]

\* AddDocumentResult without the emplace into documents_
AddDocumentResultNoData(document_id, document, status, ratings) ==
    LET unchanged == [freqs |-> word_to_document_freqs_, documents |-> documents_,
                      sequence |-> document_id_sequence_]
    IN IF document_id < 0
       THEN [outcome |-> InvalidArgument("document_id is negative")] @@ unchanged
       ELSE IF document_id \in DOMAIN documents_
       THEN [outcome |-> InvalidArgument("document_id is exist in SearchServer")] @@ unchanged
       ELSE LET words == SplitIntoWordsNoStop(document)
            IN IF words.thrown # NoThrow
               THEN [outcome |-> words] @@ unchanged
               ELSE [outcome |-> Returned(<<>>),
                     freqs |-> AddPostings(word_to_document_freqs_, words.value, 1, document_id),
                     documents |-> documents_,
                     sequence |-> Append(document_id_sequence_, document_id)]

\* the exception thrown, if any, and the three containers after the call
AddDocumentResult(document_id, document, status, ratings) ==
    LET unchanged == [freqs |-> word_to_document_freqs_, documents |-> documents_,
                      sequence |-> document_id_sequence_]
    IN IF document_id < 0
       THEN [outcome |-> InvalidArgument("document_id is negative")] @@ unchanged
       ELSE IF document_id \in DOMAIN documents_
       THEN [outcome |-> InvalidArgument("document_id is exist in SearchServer")] @@ unchanged
       ELSE LET words == SplitIntoWordsNoStop(document)
            IN IF words.thrown # NoThrow
               THEN [outcome |-> words] @@ unchanged
               ELSE [outcome |-> Returned(<<>>),
                     freqs |-> AddPostings(word_to_document_freqs_, words.value, 1, document_id),
                     documents |-> MapPut(documents_, document_id,
                                       [rating |-> ComputeAverageRating(ratings),
                                        status |-> status]),
                     sequence |-> Append(document_id_sequence_, document_id)]

AddDocument(document_id, document, status, ratings) ==
    LET r == AddDocumentResult(document_id, document, status, ratings)
    IN /\ word_to_document_freqs_' = r.freqs
       /\ documents_' = r.documents
       /\ document_id_sequence_' = r.sequence
       /\ call' = [op |-> "AddDocument", document_id |-> document_id, document |-> document]
       /\ ret' = r.outcome
       /\ UNCHANGED <<stop_words_, requests_, current_request_id_, issued>>

(***************************************************************************)
(* Query parsing.                                                          *)
(***************************************************************************)
\* ParseQueryWord without the removal of the leading minus
ParseQueryWordKeepMinus(text) ==
    IF IsValidWord(text)
    THEN IF FirstChar(text) = MINUS
         THEN LET rest == Tail(text)
              IN IF FirstChar(rest) = MINUS
                 THEN InvalidArgument("double minus in the search request")
                 ELSE IF rest = <<>>
                 THEN InvalidArgument("minus without text in the search request")
                 ELSE Returned([data |-> text, is_minus |-> TRUE, is_stop |-> IsStopWord(text)])
         ELSE Returned([data |-> text, is_minus |-> FALSE, is_stop |-> IsStopWord(text)])
    ELSE InvalidArgument("invalid characters in the search request")

\* ParseQueryWord without the check for a second minus
ParseQueryWordNoDoubleMinus(text) ==
    IF IsValidWord(text)
    THEN IF FirstChar(text) = MINUS
         THEN LET rest == Tail(text)
              IN IF rest = <<>>
                 THEN InvalidArgument("minus without text in the search request")
                 ELSE Returned([data |-> rest, is_minus |-> TRUE, is_stop |-> IsStopWord(rest)])
         ELSE Returned([data |-> text, is_minus |-> FALSE, is_stop |-> IsStopWord(text)])
    ELSE InvalidArgument("invalid characters in the search request")

ParseQueryWord(text) ==
    IF IsValidWord(text)
    THEN IF FirstChar(text) = MINUS
         THEN LET rest == Tail(text)
              IN IF FirstChar(rest) = MINUS
                 THEN InvalidArgument("double minus in the search request")
                 ELSE IF rest = <<>>
                 THEN InvalidArgument("minus without text in the search request")
                 ELSE Returned([data |-> rest, is_minus |-> TRUE, is_stop |-> IsStopWord(rest)])
         ELSE Returned([data |-> text, is_minus |-> FALSE, is_stop |-> IsStopWord(text)])
    ELSE InvalidArgument("invalid characters in the search request")

RECURSIVE ParseQueryFrom(_, _, _)
ParseQueryFrom(words, i, query) ==
    IF i > Len(words) THEN Returned(query)
    ELSE LET query_word == ParseQueryWord(words[i])
         IN IF query_word.thrown # NoThrow THEN query_word
            ELSE IF ~query_word.value.is_stop
            THEN IF query_word.value.is_minus
                 THEN ParseQueryFrom(words, i + 1,
                          [query EXCEPT !.minus_words = @ \cup {query_word.value.data}])
                 ELSE ParseQueryFrom(words, i + 1,
                          [query EXCEPT !.plus_words = @ \cup {query_word.value.data}])
            ELSE ParseQueryFrom(words, i + 1, query)

ParseQuery(text) ==
    ParseQueryFrom(SplitIntoWords(text), 1, [plus_words |-> {}, minus_words |-> {}])

(***************************************************************************)
(* Ranking.                                                                *)
(***************************************************************************)
\* log(n), in units of 1e-8, n = 1 .. 8
LogTable == <<0, 69314718, 109861229, 138629436, 160943791, 179175947, 194591015, 207944154>>

GetDocumentCount == Cardinality(DOMAIN documents_)

\* log(GetDocumentCount() * 1.0 / word_to_document_freqs_.at(word).size())
ComputeWordInverseDocumentFreq(word) ==
    LogTable[GetDocumentCount] - LogTable[Cardinality(DOMAIN word_to_document_freqs_[word])]

\* the predicates callers pass: the lambda of the status overload and some others
Holds(document_predicate, document_id, status, rating) ==
    CASE document_predicate.kind = "status" -> status = document_predicate.status
      [] document_predicate.kind = "even_id" -> document_id % 2 = 0
      [] document_predicate.kind = "rating_at_least" -> rating >= document_predicate.rating
      [] OTHER -> TRUE

StatusPredicate(status) == [kind |-> "status", status |-> status]

\* the plus (or minus) words that are keys of word_to_document_freqs_
Indexed(words) == words \cap DOMAIN word_to_document_freqs_

\* document_to_relevance[document_id] after the loop over the plus words
RECURSIVE AccumulatedRelevance(_, _)
AccumulatedRelevance(words, document_id) ==
    IF words = {} THEN 0
    ELSE LET word == CHOOSE w \in words : TRUE
             postings == word_to_document_freqs_[word]
             term == IF document_id \in DOMAIN postings
                     THEN (postings[document_id].num * ComputeWordInverseDocumentFreq(word))
                              \div postings[document_id].den
                     ELSE 0
         IN term + AccumulatedRelevance(words \ {word}, document_id)

\* the elements of a set of ints in increasing order (iteration order of std::map)
RECURSIVE Ascending(_)
Ascending(ids) ==
    IF ids = {} THEN <<>>
    ELSE LET least == CHOOSE x \in ids : \A y \in ids : x <= y
         IN <<least>> \o Ascending(ids \ {least})

\* FindAllDocuments without the loop over the minus words
FindAllDocumentsKeepMinus(query, document_predicate) ==
    LET plus == Indexed(query.plus_words)
        posted(words) == UNION {DOMAIN word_to_document_freqs_[word] : word \in words}
    IN IF \E document_id \in posted(plus) : document_id \notin DOMAIN documents_
       THEN OutOfRange("map::at")
       ELSE LET accumulated == {document_id \in posted(plus) :
                                    Holds(document_predicate, document_id,
                                          documents_[document_id].status,
                                          documents_[document_id].rating)}
                remaining == Ascending(accumulated)
            IN Returned([i \in 1..Len(remaining) |->
                            [id |-> remaining[i],
                             relevance |-> AccumulatedRelevance(plus, remaining[i]),
                             rating |-> documents_[remaining[i]].rating]])

FindAllDocuments(query, document_predicate) ==
    LET plus == Indexed(query.plus_words)
        minus == Indexed(query.minus_words)
        posted(words) == UNION {DOMAIN word_to_document_freqs_[word] : word \in words}
    IN IF \E document_id \in posted(plus) : document_id \notin DOMAIN documents_
       THEN OutOfRange("map::at")
       ELSE LET accumulated == {document_id \in posted(plus) :
                                    Holds(document_predicate, document_id,
                                          documents_[document_id].status,
                                          documents_[document_id].rating)}
                remaining == Ascending(accumulated \ posted(minus))
            IN Returned([i \in 1..Len(remaining) |->
                            [id |-> remaining[i],
                             relevance |-> AccumulatedRelevance(plus, remaining[i]),
                             rating |-> documents_[remaining[i]].rating]])

\* SortComparator with the relevances compared the wrong way round
SortComparatorAscending(lhs, rhs) ==
    IF Abs(lhs.relevance - rhs.relevance) < EPSILON
    THEN lhs.rating > rhs.rating
    ELSE lhs.relevance < rhs.relevance

\* the comparator passed to sort
SortComparator(lhs, rhs) ==
    IF Abs(lhs.relevance - rhs.relevance) < EPSILON
    THEN lhs.rating > rhs.rating
    ELSE lhs.relevance > rhs.relevance

\* the requirement of std::sort on its comparator, over the elements sorted
IsStrictWeakOrdering(elements) ==
    LET equiv(a, b) == ~SortComparator(a, b) /\ ~SortComparator(b, a)
    IN /\ \A a \in elements : ~SortComparator(a, a)
       /\ \A a, b, c \in elements :
              SortComparator(a, b) /\ SortComparator(b, c) => SortComparator(a, c)
       /\ \A a, b, c \in elements : equiv(a, b) /\ equiv(b, c) => equiv(a, c)

RECURSIVE AllOrders(_)
AllOrders(elements) ==
    IF elements = {} THEN {<<>>}
    ELSE UNION {{<<first>> \o rest : rest \in AllOrders(elements \ {first})} :
                   first \in elements}

\* every order in which no element precedes one the comparator puts before it
RECURSIVE SortedOrders(_)
SortedOrders(elements) ==
    IF elements = {} THEN {<<>>}
    ELSE UNION {{<<first>> \o rest : rest \in SortedOrders(elements \ {first})} :
                   first \in {e \in elements : \A other \in elements : ~SortComparator(other, e)}}

\* the orders std::sort may leave the range in: sort is not stable, and with a
\* comparator that is not a strict weak ordering its behaviour is undefined
StdSort(documents) ==
    LET elements == {documents[i] : i \in 1..Len(documents)}
    IN IF IsStrictWeakOrdering(elements)
       THEN SortedOrders(elements)
       ELSE AllOrders(elements)

Resize(documents, count) == SubSeq(documents, 1, count)

\* every result the call may produce
FindTopDocuments(raw_query, document_predicate) ==
    LET query == ParseQuery(raw_query)
    IN IF query.thrown # NoThrow THEN {query}
       ELSE IF raw_query = <<>> THEN {InvalidArgument("empty search request")}
       ELSE LET found == FindAllDocuments(query.value, document_predicate)
            IN IF found.thrown # NoThrow THEN {found}
               ELSE {Returned(IF Len(matched_documents) > MAX_RESULT_DOCUMENT_COUNT
                              THEN Resize(matched_documents, MAX_RESULT_DOCUMENT_COUNT)
                              ELSE matched_documents) :
                         matched_documents \in StdSort(found.value)}

FindTopDocumentsStatus(raw_query, status) ==
    FindTopDocuments(raw_query, StatusPredicate(status))

FindTopDocumentsDefault(raw_query) == FindTopDocumentsStatus(raw_query, "ACTUAL")

(***************************************************************************)
(* SearchServer::MatchDocument                                             *)
(***************************************************************************)
\* a < b of two std::string
RECURSIVE StringLess(_, _)
StringLess(a, b) ==
    IF b = <<>> THEN FALSE
    ELSE IF a = <<>> THEN TRUE
    ELSE IF Head(a) # Head(b) THEN Head(a) < Head(b)
    ELSE StringLess(Tail(a), Tail(b))

\* the elements of a std::set<string> in its iteration order
RECURSIVE InSetOrder(_)
InSetOrder(words) ==
    IF words = {} THEN <<>>
    ELSE LET least == CHOOSE x \in words : \A y \in words \ {x} : StringLess(x, y)
         IN <<least>> \o InSetOrder(words \ {least})

\* MatchDocument without the loop over the minus words
MatchDocumentKeepMatched(raw_query, document_id) ==
    IF document_id < 0 THEN InvalidArgument("document_id is negative")
    ELSE LET query == ParseQuery(raw_query)
         IN IF query.thrown # NoThrow THEN query
            ELSE IF raw_query = <<>> THEN InvalidArgument("empty search request")
            ELSE LET posted(word) ==
                         /\ word \in DOMAIN word_to_document_freqs_
                         /\ document_id \in DOMAIN word_to_document_freqs_[word]
                     matched_words ==
                         InSetOrder({word \in query.value.plus_words : posted(word)})
                 IN IF document_id \notin DOMAIN documents_
                    THEN OutOfRange("map::at")
                    ELSE Returned(<<matched_words, documents_[document_id].status>>)

\* what the call returns (the matched words and the status) or throws
MatchDocument(raw_query, document_id) ==
    IF document_id < 0 THEN InvalidArgument("document_id is negative")
    ELSE LET query == ParseQuery(raw_query)
         IN IF query.thrown # NoThrow THEN query
            ELSE IF raw_query = <<>> THEN InvalidArgument("empty search request")
            ELSE LET posted(word) ==
                         /\ word \in DOMAIN word_to_document_freqs_
                         /\ document_id \in DOMAIN word_to_document_freqs_[word]
                     matched_words ==
                         IF \E word \in query.value.minus_words : posted(word)
                         THEN <<>>
                         ELSE InSetOrder({word \in query.value.plus_words : posted(word)})
                 IN IF document_id \notin DOMAIN documents_
                    THEN OutOfRange("map::at")
                    ELSE Returned(<<matched_words, documents_[document_id].status>>)

(***************************************************************************)
(* RequestQueue.  The capacity of the window, the constant min_in_day_ of   *)
(* the source, is a parameter of the model.                                *)
(***************************************************************************)
QueryResult(request_time, number_of_results, number_of_no_results) ==
    [request_time |-> request_time,
     number_of_request_results |-> number_of_results,
     number_of_no_results |-> number_of_no_results]

BoolToInt(b) == IF b THEN 1 ELSE 0

\* RecordRequest without the decrement for the evicted record
RecordRequestNoDecrement(min_in_day_, request_id, quantity_of_search_results) ==
    IF requests_ = <<>>
    THEN <<QueryResult(request_id, quantity_of_search_results,
                       BoolToInt(quantity_of_search_results = 0))>>
    ELSE LET previous_no_resilts_number == requests_[Len(requests_)].number_of_no_results
         IN IF Len(requests_) = min_in_day_
            THEN LET front_request_result == requests_[1].number_of_request_results
                 IN Tail(Append(requests_,
                        QueryResult(request_id, quantity_of_search_results,
                            previous_no_resilts_number
                                + BoolToInt(quantity_of_search_results = 0)
                                - BoolToInt(front_request_result < 0))))
            ELSE Append(requests_,
                     QueryResult(request_id, quantity_of_search_results,
                         previous_no_resilts_number
                             + BoolToInt(quantity_of_search_results = 0)))

\* RecordRequest without the eviction
RecordRequestNoPop(min_in_day_, request_id, quantity_of_search_results) ==
    IF requests_ = <<>>
    THEN <<QueryResult(request_id, quantity_of_search_results,
                       BoolToInt(quantity_of_search_results = 0))>>
    ELSE LET previous_no_resilts_number == requests_[Len(requests_)].number_of_no_results
         IN IF Len(requests_) = min_in_day_
            THEN LET front_request_result == requests_[1].number_of_request_results
                 IN Append(<<>> \o requests_,
                        QueryResult(request_id, quantity_of_search_results,
                            previous_no_resilts_number
                                + BoolToInt(quantity_of_search_results = 0)
                                - BoolToInt(front_request_result = 0)))
            ELSE Append(requests_,
                     QueryResult(request_id, quantity_of_search_results,
                         previous_no_resilts_number
                             + BoolToInt(quantity_of_search_results = 0)))

\* RecordRequest evicting one record early
RecordRequestEarly(min_in_day_, request_id, quantity_of_search_results) ==
    IF requests_ = <<>>
    THEN <<QueryResult(request_id, quantity_of_search_results,
                       BoolToInt(quantity_of_search_results = 0))>>
    ELSE LET previous_no_resilts_number == requests_[Len(requests_)].number_of_no_results
         IN IF Len(requests_) >= min_in_day_ - 1
            THEN LET front_request_result == requests_[1].number_of_request_results
                 IN Tail(Append(requests_,
                        QueryResult(request_id, quantity_of_search_results,
                            previous_no_resilts_number
                                + BoolToInt(quantity_of_search_results = 0)
                                - BoolToInt(front_request_result = 0))))
            ELSE Append(requests_,
                     QueryResult(request_id, quantity_of_search_results,
                         previous_no_resilts_number
                             + BoolToInt(quantity_of_search_results = 0)))

\* requests_ after the call, given the results of the search and the new request id
RecordRequest(min_in_day_, request_id, quantity_of_search_results) ==
    IF requests_ = <<>>
    THEN <<QueryResult(request_id, quantity_of_search_results,
                       BoolToInt(quantity_of_search_results = 0))>>
    ELSE LET previous_no_resilts_number == requests_[Len(requests_)].number_of_no_results
         IN IF Len(requests_) = min_in_day_
            THEN LET front_request_result == requests_[1].number_of_request_results
                 IN Tail(Append(requests_,
                        QueryResult(request_id, quantity_of_search_results,
                            previous_no_resilts_number
                                + BoolToInt(quantity_of_search_results = 0)
                                - BoolToInt(front_request_result = 0))))
            ELSE Append(requests_,
                     QueryResult(request_id, quantity_of_search_results,
                         previous_no_resilts_number
                             + BoolToInt(quantity_of_search_results = 0)))

\* AddFindRequest counting the request before the search
AddFindRequestCountFirst(min_in_day_, raw_query, document_predicate) ==
    \E search_results \in FindTopDocuments(raw_query, document_predicate) :
        /\ call' = [op |-> "AddFindRequest", raw_query |-> raw_query,
                    document_predicate |-> document_predicate]
        /\ ret' = search_results
        /\ IF search_results.thrown # NoThrow
           THEN /\ current_request_id_' = current_request_id_ + 1
                /\ UNCHANGED <<requests_, issued>>
           ELSE /\ current_request_id_' = current_request_id_ + 1
                /\ requests_' = RecordRequest(min_in_day_, current_request_id_ + 1,
                                              Len(search_results.value))
                /\ issued' = Append(issued, Len(search_results.value))
        /\ UNCHANGED <<stop_words_, word_to_document_freqs_, documents_,
                       document_id_sequence_>>

AddFindRequest(min_in_day_, raw_query, document_predicate) ==
    \E search_results \in FindTopDocuments(raw_query, document_predicate) :
        /\ call' = [op |-> "AddFindRequest", raw_query |-> raw_query,
                    document_predicate |-> document_predicate]
        /\ ret' = search_results
        /\ IF search_results.thrown # NoThrow
           THEN UNCHANGED <<requests_, current_request_id_, issued>>
           ELSE /\ current_request_id_' = current_request_id_ + 1
                /\ requests_' = RecordRequest(min_in_day_, current_request_id_ + 1,
                                              Len(search_results.value))
                /\ issued' = Append(issued, Len(search_results.value))
        /\ UNCHANGED <<stop_words_, word_to_document_freqs_, documents_,
                       document_id_sequence_>>

\* the running count of the newest record; 0 while nothing is recorded
GetNoResultRequests ==
    IF requests_ = <<>> THEN 0 ELSE requests_[Len(requests_)].number_of_no_results

(***************************************************************************)
(* The program: a server constructed with the stop word "s", wrapped by a  *)
(* request queue.                                                          *)
(***************************************************************************)
StopWordsText == <<115>>

\* SearchServer(stop_words_text): the stop words, or the exception
Construct(stop_words_text) ==
    LET words == MakeUniqueNonEmptyStrings(SplitIntoWords(stop_words_text))
    IN IF \A word \in words : IsValidWord(word)
       THEN Returned(words)
       ELSE InvalidArgument("invalid characters in the stop-words")

NoCall == [op |-> "none"]

Constructed ==
    /\ stop_words_ = Construct(StopWordsText).value
    /\ word_to_document_freqs_ = EmptyMap
    /\ documents_ = EmptyMap
    /\ document_id_sequence_ = <<>>
    /\ requests_ = <<>>
    /\ current_request_id_ = 0
    /\ issued = <<>>

Init ==
    /\ Constructed
    /\ call = NoCall
    /\ ret = Returned(<<>>)

(***************************************************************************)
(* Spec: documents are added to the server and searched, in any order.     *)
(***************************************************************************)
\* "a", "b b a", "s", "a <0x12>b"
\* the documents offered to AddDocument: "a" (rated 7 2 7), "b b a" (banned,
\* not rated), "s" (the stop word only), "a \x12b" (a control character)
Documents ==
    {[document |-> <<97>>, status |-> "ACTUAL", ratings |-> <<7, 2, 7>>],
     [document |-> <<98, 32, 98, 32, 97>>, status |-> "BANNED", ratings |-> <<>>],
     [document |-> <<115>>, status |-> "ACTUAL", ratings |-> <<>>],
     [document |-> <<97, 32, 18, 98>>, status |-> "ACTUAL", ratings |-> <<7, 2, 7>>]}

Statuses == {"ACTUAL", "BANNED"}

\* "a", "a b", "b -a", "s", "", "a --b"
QueryTexts ==
    {<<97>>, <<97, 32, 98>>, <<98, 32, 45, 97>>, <<115>>, <<>>, <<97, 32, 45, 45, 98>>}

Predicates == {[kind |-> "even_id"], [kind |-> "rating_at_least", rating |-> 1]}

DoAddDocument ==
    \E document_id \in -1..MaxDocId, d \in Documents :
        AddDocument(document_id, d.document, d.status, d.ratings)

\* a search: the call and one of its possible results; nothing else changes
Search(raw_query, document_predicate, results) ==
    \E result \in results :
        /\ call' = [op |-> "FindTopDocuments", raw_query |-> raw_query,
                    document_predicate |-> document_predicate]
        /\ ret' = result
        /\ UNCHANGED <<server, queue>>

DoFindTopDocuments ==
    \E raw_query \in QueryTexts, document_predicate \in Predicates :
        Search(raw_query, document_predicate,
               FindTopDocuments(raw_query, document_predicate))

DoFindTopDocumentsStatus ==
    \E raw_query \in QueryTexts, status \in Statuses :
        Search(raw_query, StatusPredicate(status),
               FindTopDocumentsStatus(raw_query, status))

DoFindTopDocumentsDefault ==
    \E raw_query \in QueryTexts :
        Search(raw_query, StatusPredicate("ACTUAL"), FindTopDocumentsDefault(raw_query))

DoMatchDocument ==
    \E raw_query \in QueryTexts, document_id \in -1..MaxDocId :
        /\ call' = [op |-> "MatchDocument", raw_query |-> raw_query,
                    document_id |-> document_id]
        /\ ret' = MatchDocument(raw_query, document_id)
        /\ UNCHANGED <<server, queue>>

Next ==
    \/ DoAddDocument
    \/ DoFindTopDocuments
    \/ DoFindTopDocumentsStatus
    \/ DoFindTopDocumentsDefault
    \/ DoMatchDocument

Spec == Init /\ [][Next]_vars

(***************************************************************************)
(* SpecQueue: tracked requests are issued through the request queue while  *)
(* one-word documents are added to the server.                             *)
(***************************************************************************)
\* "a", "c", "", "a --b"
QueueQueryTexts == {<<97>>, <<99>>, <<>>, <<97, 32, 45, 45, 98>>}

QueuePredicates == {StatusPredicate("ACTUAL"), StatusPredicate("BANNED")}

QueueAddDocument ==
    \E document_id \in 0..MaxQueueDocId :
        AddDocument(document_id, <<97>>, "ACTUAL", <<>>)

QueueAddFindRequest ==
    /\ current_request_id_ < MaxRequests
    /\ \E raw_query \in QueueQueryTexts, document_predicate \in QueuePredicates :
           AddFindRequest(WindowCapacity, raw_query, document_predicate)

NextQueue == QueueAddDocument \/ QueueAddFindRequest

SpecQueue == Init /\ [][NextQueue]_vars

(***************************************************************************)
(* SpecWindow: the run of capacity + k tracked requests, k < capacity, in  *)
(* which request #1 finds nothing (the server is empty) and every later    *)
(* request finds the document added after request #1.                      *)
(***************************************************************************)
WindowFirstRequest ==
    /\ current_request_id_ = 0
    /\ AddFindRequest(ScenarioCapacity, <<97>>, StatusPredicate("ACTUAL"))

WindowAddDocument ==
    /\ current_request_id_ = 1
    /\ documents_ = EmptyMap
    /\ AddDocument(0, <<97>>, "ACTUAL", <<>>)

WindowLaterRequest ==
    /\ documents_ # EmptyMap
    /\ current_request_id_ < ScenarioCapacity + (ScenarioCapacity - 1)
    /\ AddFindRequest(ScenarioCapacity, <<97>>, StatusPredicate("ACTUAL"))

NextWindow == WindowFirstRequest \/ WindowAddDocument \/ WindowLaterRequest

SpecWindow == Init /\ [][NextWindow]_vars

(***************************************************************************)
(* SpecFind: a corpus of up to MaxFindDocs documents with ids 0, 1, ... is *)
(* built, then searched once.                                              *)
(***************************************************************************)
\* "a" rated 5, "a" rated 1, "b b a" rated 0 and banned, "b" rated -3
FindDocuments ==
    {[document |-> <<97>>, status |-> "ACTUAL", ratings |-> <<7, 2, 7>>],
     [document |-> <<97>>, status |-> "ACTUAL", ratings |-> <<1>>],
     [document |-> <<98, 32, 98, 32, 97>>, status |-> "BANNED", ratings |-> <<>>],
     [document |-> <<98>>, status |-> "ACTUAL", ratings |-> <<-3, -4>>]}

Searched == call.op = "FindTopDocuments"

FindAddDocument ==
    /\ ~Searched
    /\ Len(document_id_sequence_) < MaxFindDocs
    /\ \E d \in FindDocuments :
           /\ Cardinality({id \in DOMAIN documents_ :
                               /\ documents_[id].status = d.status
                               /\ documents_[id].rating = ComputeAverageRating(d.ratings)})
                  < MaxSameDocs
           /\ AddDocument(Len(document_id_sequence_), d.document, d.status, d.ratings)

\* "a b", "b -a", "a --b"
FindQueryTexts == {<<97, 32, 98>>, <<98, 32, 45, 97>>, <<97, 32, 45, 45, 98>>}

FindByPredicate ==
    /\ ~Searched
    /\ \E raw_query \in FindQueryTexts, document_predicate \in Predicates :
           Search(raw_query, document_predicate,
                  FindTopDocuments(raw_query, document_predicate))

FindByStatus ==
    /\ ~Searched
    /\ \E raw_query \in FindQueryTexts, status \in Statuses :
           Search(raw_query, StatusPredicate(status),
                  FindTopDocumentsStatus(raw_query, status))

FindDefault ==
    /\ ~Searched
    /\ \E raw_query \in FindQueryTexts :
           Search(raw_query, StatusPredicate("ACTUAL"), FindTopDocumentsDefault(raw_query))

NextFind == FindAddDocument \/ FindByPredicate \/ FindByStatus \/ FindDefault

SpecFind == Init /\ [][NextFind]_vars

(***************************************************************************)
(* Paginator.  An iterator is an offset from begin(c); a page is the pair  *)
(* of iterators of an IteratorRange.                                       *)
(***************************************************************************)
IteratorRange(page_begin, page_end) == [page_begin_ |-> page_begin, page_end_ |-> page_end]

\* pages_ after the loop of the constructor has run from this page on
RECURSIVE PushPages(_, _, _, _, _, _)
PushPages(pages, page, pages_count, temp_begin_iterator, range_end, page_size) ==
    IF page > pages_count THEN pages
    ELSE IF page < pages_count
         THEN PushPages(Append(pages, IteratorRange(temp_begin_iterator,
                                                    temp_begin_iterator + page_size)),
                        page + 1, pages_count, temp_begin_iterator + page_size,
                        range_end, page_size)
         ELSE PushPages(Append(pages, IteratorRange(temp_begin_iterator, range_end)),
                        page + 1, pages_count, temp_begin_iterator, range_end, page_size)

\* the results of  a % b  and  a / b : undefined for b = 0, where the build
\* either traps or yields the quotient 0 and the remainder a
Divisions(a, b) ==
    IF b = 0 THEN {[trap |-> TRUE, rem |-> 0, quot |-> 0], [trap |-> FALSE, rem |-> a, quot |-> 0]}
    ELSE {[trap |-> FALSE, rem |-> CRem(a, b), quot |-> CDiv(a, b)]}

Terminated(what) == [thrown |-> "terminated", what |-> what, value |-> <<>>]

\* Paginator without the page for the remainder
PaginatorNoRemainder(range_size, page_size) ==
    {IF d.trap THEN Terminated("integer division by zero")
     ELSE LET pages_count == d.quot
          IN Returned([pages_count_ |-> pages_count,
                       pages_ |-> PushPages(<<>>, 1, pages_count, 0, range_size, page_size)]) :
        d \in Divisions(range_size, page_size)}

\* Paginator(begin(c), end(c), page_size): every outcome of the constructor
Paginator(range_size, page_size) ==
    {IF d.trap THEN Terminated("integer division by zero")
     ELSE LET pages_count == IF d.rem > 0 THEN d.quot + 1 ELSE d.quot
          IN Returned([pages_count_ |-> pages_count,
                       pages_ |-> PushPages(<<>>, 1, pages_count, 0, range_size, page_size)]) :
        d \in Divisions(range_size, page_size)}

\* the page size goes through size_t and back to int, which gives back the
\* int the caller passed
Paginate(c, page_size) == Paginator(Len(c), page_size)

(***************************************************************************)
(* SpecPaginate: Paginate applied to the sequences 11, 12, ... of up to    *)
(* MaxRangeLen elements, with every page size in -MaxPageSize..MaxPageSize.*)
(***************************************************************************)
InitPaginate ==
    /\ Constructed
    /\ \E range_size \in 0..MaxRangeLen, page_size \in -MaxPageSize..MaxPageSize :
           call = [op |-> "Paginate", pending |-> TRUE,
                   c |-> [i \in 1..range_size |-> 10 + i], page_size |-> page_size]
    /\ ret = Returned(<<>>)

DoPaginate ==
    /\ call.op = "Paginate"
    /\ call.pending
    /\ call' = [call EXCEPT !.pending = FALSE]
    /\ ret' \in Paginate(call.c, call.page_size)
    /\ UNCHANGED <<server, queue>>

SpecPaginate == InitPaginate /\ [][DoPaginate]_vars

(***************************************************************************)
(* SpecParse: ParseQuery applied to every text of up to MaxQueryLen chars  *)
(* over 'a', 'b', 's' (the stop word), '-', ' ' and the control char 0x12. *)
(***************************************************************************)
QueryChars == {97, 98, 115, MINUS, SPACE, 18}

RECURSIVE Texts(_)
Texts(length) ==
    IF length = 0 THEN {<<>>}
    ELSE Texts(length - 1)
             \cup {Append(text, c) : text \in {t \in Texts(length - 1) : Len(t) = length - 1},
                                     c \in QueryChars}

InitParse ==
    /\ Constructed
    /\ \E text \in Texts(MaxQueryLen) :
           call = [op |-> "ParseQuery", pending |-> TRUE, text |-> text]
    /\ ret = Returned(<<>>)

DoParseQuery ==
    /\ call.op = "ParseQuery"
    /\ call.pending
    /\ call' = [call EXCEPT !.pending = FALSE]
    /\ ret' = ParseQuery(call.text)
    /\ UNCHANGED <<server, queue>>

SpecParse == InitParse /\ [][DoParseQuery]_vars

(***************************************************************************)
(* SpecQueryText: one text of up to MaxQueryLen chars over QueryChars is   *)
(* given, as the query, to ParseQuery, FindTopDocuments and MatchDocument  *)
(* of a server without documents: a query is parsed before the index is    *)
(* looked at.                                                              *)
(***************************************************************************)
\* the query text of the run: it is handed from call to call
QueryText == IF call.op = "ParseQuery" THEN call.text ELSE call.raw_query

InitQueryText == InitParse

QueryTextParseQuery ==
    /\ call' = [op |-> "ParseQuery", pending |-> FALSE, text |-> QueryText]
    /\ ret' = ParseQuery(QueryText)
    /\ UNCHANGED <<server, queue>>

QueryTextFindTopDocuments ==
    Search(QueryText, StatusPredicate("ACTUAL"), FindTopDocumentsDefault(QueryText))

QueryTextMatchDocument ==
    \E document_id \in -1..MaxDocId :
        /\ call' = [op |-> "MatchDocument", raw_query |-> QueryText,
                    document_id |-> document_id]
        /\ ret' = MatchDocument(QueryText, document_id)
        /\ UNCHANGED <<server, queue>>

NextQueryText ==
    QueryTextParseQuery \/ QueryTextFindTopDocuments \/ QueryTextMatchDocument

SpecQueryText == InitQueryText /\ [][NextQueryText]_vars

(***************************************************************************)
(* Properties.                                                             *)
(***************************************************************************)

\* C1: an AddDocument call fails exactly when the id is negative, the id is
\* already stored or a token of the text has a char in [0, 31], and a failed
\* call leaves word_to_document_freqs_, documents_ and document_id_sequence_
\* as they were.
C1_FailedAddDocumentChangesNothing ==
    [][call'.op = "AddDocument" =>
          LET text_words == SplitIntoWords(call'.document)
              fails == \/ call'.document_id < 0
                       \/ call'.document_id \in DOMAIN documents_
                       \/ \E i \in 1..Len(text_words) :
                              \E j \in 1..Len(text_words[i]) :
                                  text_words[i][j] \in 0..31
          IN /\ fails <=> ret'.thrown = "invalid_argument"
             /\ fails => UNCHANGED <<word_to_document_freqs_, documents_,
                                     document_id_sequence_>>]_vars

\* a text with a control char was rejected by a server that holds documents
C1_Witness ==
    /\ call.op = "AddDocument"
    /\ ret.what = "invalid characters in the document"
    /\ word_to_document_freqs_ # EmptyMap
    /\ document_id_sequence_ # <<>>

C10_ReturnedAreTheMatching ==
    (call.op = "FindTopDocuments" /\ ret.thrown = NoThrow) =>
        LET query == ParseQuery(call.raw_query).value
            posting(word, id) ==
                /\ word \in DOMAIN word_to_document_freqs_
                /\ id \in DOMAIN word_to_document_freqs_[word]
            matching == {id \in DOMAIN documents_ :
                            /\ Holds(call.document_predicate, id, documents_[id].status,
                                     documents_[id].rating)
                            /\ \E word \in query.plus_words : posting(word, id)
                            /\ \A word \in query.minus_words : ~posting(word, id)}
            returned == {ret.value[i].id : i \in 1..Len(ret.value)}
        IN /\ returned \subseteq matching
           /\ Cardinality(returned) = Len(ret.value)
           /\ Cardinality(matching) <= 5 => returned = matching

\* the search for "b -a" returned a document although another document has
\* "b" and is left out for having "a", and a third fails the predicate
C10_Witness ==
    /\ call.op = "FindTopDocuments"
    /\ call.raw_query = <<98, 32, 45, 97>>
    /\ ret.thrown = NoThrow
    /\ ret.value # <<>>
    /\ {<<97>>, <<98>>} \subseteq DOMAIN word_to_document_freqs_
    /\ \E id \in DOMAIN word_to_document_freqs_[<<98>>] :
           id \in DOMAIN word_to_document_freqs_[<<97>>]
    /\ \E id \in DOMAIN word_to_document_freqs_[<<98>>] :
           /\ id \notin DOMAIN word_to_document_freqs_[<<97>>]
           /\ ~Holds(call.document_predicate, id, documents_[id].status,
                     documents_[id].rating)

\* C3: the count GetNoResultRequests reports is the number of requests with
\* no result among the last min(n, capacity) of the n completed requests.
C3_CountOfTheWindow ==
    LET n == Len(issued)
        window == IF n < WindowCapacity THEN n ELSE WindowCapacity
    IN /\ n = current_request_id_
       /\ GetNoResultRequests =
              Cardinality({i \in (n - window + 1)..n : issued[i] = 0})

\* a request with no result was evicted while others are still in the window
C3_Witness ==
    /\ Len(issued) > WindowCapacity
    /\ GetNoResultRequests > 0
    /\ GetNoResultRequests < Cardinality({i \in 1..Len(issued) : issued[i] = 0})
    /\ GetNoResultRequests < Len(requests_)

\* C5: the window holds at most capacity records: those of the most recent
\* completed requests, in the order issued, their request numbers
\* increasing from front to back.
C5_WindowIsTheRecentRequests ==
    LET n == Len(issued)
        size == Len(requests_)
    IN /\ size <= WindowCapacity
       /\ size = IF n < WindowCapacity THEN n ELSE WindowCapacity
       /\ \A i \in 1..size :
              /\ requests_[i].request_time = n - size + i
              /\ requests_[i].number_of_request_results = issued[n - size + i]
       /\ \A i \in 1..(size - 1) :
              requests_[i].request_time < requests_[i + 1].request_time

\* the window is full and its oldest records were evicted
C5_Witness ==
    /\ Len(requests_) = WindowCapacity
    /\ Len(issued) >= WindowCapacity + 2
    /\ requests_[1].request_time > 2

\* C6: when the search made by AddFindRequest throws, AddFindRequest throws
\* the same exception, and requests_, current_request_id_ and the count
\* GetNoResultRequests reports stay as they were.
C6_FailedRequestNotRecorded ==
    [][call'.op = "AddFindRequest" =>
          \A failing \in {{r \in FindTopDocuments(call'.raw_query,
                                                  call'.document_predicate) :
                               r.thrown # NoThrow}} :
              /\ failing # {} <=> ret'.thrown # NoThrow
              /\ failing # {} =>
                     /\ ret' \in failing
                     /\ ret'.thrown = "invalid_argument"
                     /\ UNCHANGED <<requests_, current_request_id_>>
                     /\ GetNoResultRequests' = GetNoResultRequests]_vars

\* a request failed while the window holds records of requests with no result
C6_Witness ==
    /\ call.op = "AddFindRequest"
    /\ ret.thrown = "invalid_argument"
    /\ Len(requests_) >= 2
    /\ GetNoResultRequests > 0

\* C4 (as stated): request #1 found nothing and every later request found
\* something; the count is 1 before the request number capacity and 0 from
\* that request on.
C4_AsStated ==
    /\ (current_request_id_ >= 1 /\ current_request_id_ < ScenarioCapacity)
           => GetNoResultRequests = 1
    /\ current_request_id_ >= ScenarioCapacity => GetNoResultRequests = 0

\* C4 (amended): the count is 1 up to and including the request number
\* capacity, and 0 from the request number capacity + 1 on, which evicts
\* request #1.
C4_EvictedByTheNextRequest ==
    /\ (current_request_id_ >= 1 /\ current_request_id_ <= ScenarioCapacity)
           => /\ GetNoResultRequests = 1
              /\ requests_[1].request_time = 1
    /\ current_request_id_ > ScenarioCapacity
           => /\ GetNoResultRequests = 0
              /\ requests_[1].request_time > 1

\* request #1 was evicted by the request number capacity + 1
C4_Witness ==
    /\ current_request_id_ = ScenarioCapacity + 1
    /\ issued[1] = 0
    /\ \A i \in 2..Len(issued) : issued[i] > 0
    /\ requests_[1].request_time = 2
    /\ GetNoResultRequests = 0

\* C7: for a page size p > 0 and a sequence of L elements Paginate returns
\* ceil(L / p) pages; the first starts where the sequence starts, each next
\* one where the one before ends, the last ends where the sequence ends;
\* every page but the last has p elements and the last has L mod p elements,
\* or p when that is 0; the elements of the pages, in order, are the sequence.
C7_PagesPartitionTheSequence ==
    (call.op = "Paginate" /\ ~call.pending /\ call.page_size > 0) =>
        LET L == Len(call.c)
            p == call.page_size
            pages == ret.value.pages_
            count == Len(pages)
            size(i) == pages[i].page_end_ - pages[i].page_begin_
            elements(i) == SubSeq(call.c, pages[i].page_begin_ + 1, pages[i].page_end_)
        IN /\ ret.thrown = NoThrow
           /\ count = (L + p - 1) \div p
           /\ ret.value.pages_count_ = count
           /\ count > 0 => pages[1].page_begin_ = 0 /\ pages[count].page_end_ = L
           /\ \A i \in 1..(count - 1) :
                  /\ pages[i].page_end_ = pages[i + 1].page_begin_
                  /\ size(i) = p
           /\ count > 0 => size(count) = IF L % p # 0 THEN L % p ELSE p
           /\ \A k \in 1..L :
                  \E i \in 1..count :
                      /\ pages[i].page_begin_ < k
                      /\ k <= pages[i].page_end_
                      /\ elements(i)[k - pages[i].page_begin_] = call.c[k]
                      /\ (k - 1) \div p + 1 = i

\* seven elements in pages of three: two full pages and a last page of one
C7_Witness ==
    /\ call.op = "Paginate"
    /\ ~call.pending
    /\ call.page_size = 3
    /\ Len(call.c) = 7
    /\ Len(ret.value.pages_) = 3
    /\ ret.value.pages_[3] = IteratorRange(6, 7)

\* C8 (as stated): Paginate with a page size <= 0 throws invalid_argument.
C8_AsStated ==
    (call.op = "Paginate" /\ ~call.pending /\ call.page_size <= 0) =>
        ret.thrown = "invalid_argument"

\* C9 (as stated): no word is both a plus word and a minus word of a parsed
\* query.
C9_AsStated ==
    (call.op = "ParseQuery" /\ ~call.pending /\ ret.thrown = NoThrow) =>
        ret.value.plus_words \cap ret.value.minus_words = {}

\* C9 (amended): the words that are both plus and minus words of a parsed
\* query are those, stop words apart, that the text has both as a token and
\* as a token after a leading '-'; without such a word the two sets are
\* disjoint.
C9_SharedWordsAreGivenTwice ==
    (call.op = "ParseQuery" /\ ~call.pending /\ ret.thrown = NoThrow) =>
        LET text_words == SplitIntoWords(call.text)
            tokens == {text_words[i] : i \in 1..Len(text_words)}
        IN ret.value.plus_words \cap ret.value.minus_words =
               {word \in tokens : <<MINUS>> \o word \in tokens /\ word \notin stop_words_}

\* a query was parsed that has a word as a plus word and as a minus word
C9_Witness ==
    /\ call.op = "ParseQuery"
    /\ ~call.pending
    /\ ret.thrown = NoThrow
    /\ ret.value.plus_words \cap ret.value.minus_words # {}

\* a query text every token of which ParseQueryWord accepts: no control
\* char, no leading "--", not the bare "-"
ValidQueryText(text) ==
    LET tokens == SplitIntoWords(text)
    IN \A i \in 1..Len(tokens) :
           /\ \A j \in 1..Len(tokens[i]) : tokens[i][j] \notin 0..31
           /\ tokens[i] # <<MINUS>>
           /\ ~(Len(tokens[i]) >= 2 /\ tokens[i][1] = MINUS /\ tokens[i][2] = MINUS)

\* C11: for a stored document id and a valid non-empty query MatchDocument
\* returns the status of the document and exactly the plus words of the
\* query that have a posting for the document, or no word at all when a
\* minus word of the query has a posting for the document.
C11_MatchedPlusWordsAndStatus ==
    (/\ call.op = "MatchDocument"
     /\ call.document_id \in DOMAIN documents_
     /\ call.raw_query # <<>>
     /\ ValidQueryText(call.raw_query)) =>
        LET query == ParseQuery(call.raw_query).value
            posting(word) ==
                /\ word \in DOMAIN word_to_document_freqs_
                /\ call.document_id \in DOMAIN word_to_document_freqs_[word]
        IN /\ ret.thrown = NoThrow
           /\ ret.value[2] = documents_[call.document_id].status
           /\ Len(ret.value[1]) = Cardinality({ret.value[1][i] : i \in 1..Len(ret.value[1])})
           /\ {ret.value[1][i] : i \in 1..Len(ret.value[1])} =
                  IF \E word \in query.minus_words : posting(word)
                  THEN {}
                  ELSE {word \in query.plus_words : posting(word)}

\* "b -a" was matched against the banned document "b b a": no word is
\* returned although "b" has a posting for the document; the status still is
C11_Witness ==
    /\ call.op = "MatchDocument"
    /\ call.raw_query = <<98, 32, 45, 97>>
    /\ call.document_id \in DOMAIN documents_
    /\ <<98>> \in DOMAIN word_to_document_freqs_
    /\ call.document_id \in DOMAIN word_to_document_freqs_[<<98>>]
    /\ ret = Returned(<<<<>>, "BANNED">>)

\* what ParseQueryWord throws for a token: "" when it accepts the token
TokenFault(token) ==
    IF \E j \in 1..Len(token) : token[j] \in 0..31
    THEN "invalid characters in the search request"
    ELSE IF Len(token) >= 2 /\ token[1] = MINUS /\ token[2] = MINUS
    THEN "double minus in the search request"
    ELSE IF token = <<MINUS>>
    THEN "minus without text in the search request"
    ELSE ""

\* a call that was given the query text of the run and has completed
QueryTextCalled ==
    \/ call.op = "ParseQuery" /\ ~call.pending
    \/ call.op \in {"FindTopDocuments", "MatchDocument"}

\* C12 (as stated): a query with a token that begins with "--" fails with
\* the double-minus condition and a query with the token "-" fails with the
\* bare-dash condition, in ParseQuery, FindTopDocuments and MatchDocument.
C12_AsStated ==
    QueryTextCalled =>
        LET tokens == SplitIntoWords(QueryText)
            parsed == call.op # "MatchDocument" \/ call.document_id >= 0
        IN /\ (\E i \in 1..Len(tokens) :
                   Len(tokens[i]) >= 2 /\ tokens[i][1] = MINUS /\ tokens[i][2] = MINUS)
                  => /\ ret.thrown = "invalid_argument"
                     /\ parsed => ret.what = "double minus in the search request"
           /\ (\E i \in 1..Len(tokens) : tokens[i] = <<MINUS>>)
                  => /\ ret.thrown = "invalid_argument"
                     /\ parsed => ret.what = "minus without text in the search request"

\* C12 (amended): a query with a token that begins with "--" or is "-"
\* fails with invalid_argument in ParseQuery, FindTopDocuments and
\* MatchDocument, and nothing is returned; the condition reported is the
\* one of the first token of the text that ParseQueryWord rejects (control
\* char, else double minus, else bare dash), or the negative id when
\* MatchDocument is given one.
C12_FirstRejectedTokenDecides ==
    QueryTextCalled =>
        LET tokens == SplitIntoWords(QueryText)
            rejected == {i \in 1..Len(tokens) : TokenFault(tokens[i]) # ""}
            first == CHOOSE i \in rejected : \A j \in rejected : i <= j
        IN rejected # {} =>
               /\ ret.thrown = "invalid_argument"
               /\ ret.value = <<>>
               /\ ret.what = IF call.op = "MatchDocument" /\ call.document_id < 0
                             THEN "document_id is negative"
                             ELSE TokenFault(tokens[first])

\* a query with the token "-" before a token that begins with "--" was
\* given to FindTopDocuments, which reported the bare dash
C12_Witness ==
    /\ call.op = "FindTopDocuments"
    /\ LET tokens == SplitIntoWords(call.raw_query)
       IN \E i, j \in 1..Len(tokens) :
              /\ i < j
              /\ tokens[i] = <<MINUS>>
              /\ TokenFault(tokens[j]) = "double minus in the search request"
    /\ ret = InvalidArgument("minus without text in the search request")

\* C13 (as stated): of any two distinct candidates of a search exactly one
\* precedes the other by the comparator, precedence is transitive, and the
\* search has one possible result.
C13_AsStated ==
    (call.op = "FindTopDocuments" /\ ret.thrown = NoThrow) =>
        LET found == FindAllDocuments(ParseQuery(call.raw_query).value,
                                      call.document_predicate).value
            candidates == {found[i] : i \in 1..Len(found)}
        IN /\ \A a, b \in candidates :
                  a # b => (SortComparator(a, b) <=> ~SortComparator(b, a))
           /\ \A a, b, c \in candidates :
                  SortComparator(a, b) /\ SortComparator(b, c) => SortComparator(a, c)
           /\ Cardinality(FindTopDocuments(call.raw_query, call.document_predicate)) = 1

\* C14: every id with a posting is a stored document, every indexed word
\* has a posting, no indexed word is a stop word; so the divisor of
\* ComputeWordInverseDocumentFreq is not zero and no search throws anything
\* but invalid_argument (documents_.at never fails).
C14_IndexWellFormed ==
    /\ \A word \in DOMAIN word_to_document_freqs_ :
           /\ DOMAIN word_to_document_freqs_[word] # {}
           /\ DOMAIN word_to_document_freqs_[word] \subseteq DOMAIN documents_
           /\ ~IsStopWord(word)
           /\ Cardinality(DOMAIN word_to_document_freqs_[word]) > 0
    /\ \A raw_query \in QueryTexts :
           \A document_predicate \in Predicates \cup {StatusPredicate(status) : status \in Statuses} :
               \A result \in FindTopDocuments(raw_query, document_predicate) :
                   result.thrown \in {NoThrow, "invalid_argument"}
    /\ (call.op = "FindTopDocuments") => ret.thrown \in {NoThrow, "invalid_argument"}

\* an AddDocument has just failed on a server that holds a document without
\* postings (its text is the stop word) and a document with postings
C14_Witness ==
    /\ call.op = "AddDocument"
    /\ ret.thrown = "invalid_argument"
    /\ \E document_id \in DOMAIN documents_ :
           \A word \in DOMAIN word_to_document_freqs_ :
               document_id \notin DOMAIN word_to_document_freqs_[word]
    /\ \E word \in DOMAIN word_to_document_freqs_ :
           DOMAIN word_to_document_freqs_[word] # {}
====
